---- MODULE Spec2Model ----
(***************************************************************************)
(* Model of src/src/config.rs: the configuration reader Reader::read and   *)
(* the syntax rule compiler Reader::get_syntax_regex.                      *)
(*                                                                         *)
(* Strings whose contents the code inspects (pattern strings, keywords)    *)
(* are sequences of one-character strings, so that starts_with and the     *)
(* regular expression syntax are computed on the characters.  Strings the  *)
(* code only compares (names, extensions, map keys) are TLA+ strings.      *)
(* A HashMap is a function on its set of keys.                             *)
(***************************************************************************)
EXTENDS Integers, Sequences, FiniteSets, TLC

(***************************************************************************)
(* Bounds of the model.                                                    *)
(***************************************************************************)
\* Longest language list of a configuration file.
MaxLangs == 2
\* Number of HashMap iteration orders explored per call.
NumSeeds == 2

(***************************************************************************)
(* Strings.                                                                *)
(***************************************************************************)
\* str::starts_with
StartsWith(s, prefix) ==
  /\ Len(s) >= Len(prefix)
  /\ SubSeq(s, 1, Len(prefix)) = prefix

Digits == {"0","1","2","3","4","5","6","7","8","9"}

(***************************************************************************)
(* Regex::new: the syntax check of the regex crate, on the part of the     *)
(* syntax the patterns of this model use: literals, escapes, groups with   *)
(* flags, character classes, repetitions and alternation (named groups,    *)
(* Unicode classes and the size limit are left out).  A compiled Regex is  *)
(* modelled by the pattern it was compiled from (Regex::as_str).           *)
(***************************************************************************)
\* characters that may follow a backslash
EscapeChars ==
  {"b","B","d","D","s","S","w","W","n","t","r","A","z",
   "\\",".","+","*","?","(",")","|","[","]","{","}","^","$","#","&","-","~"}

\* characters that are not literals outside a character class
MetaChars == {"\\", "(", ")", "[", "*", "+", "?", "{", "|"}

FlagChars == {"i","m","s","U","u","x","-"}

\* Index of the "]" closing the character class whose items start at i
\* (0 when the class is unclosed or an escape is cut short).  first tells
\* that no item has been read yet: a "]" there is a literal.
RECURSIVE ClassEnd(_, _, _)
ClassEnd(p, i, first) ==
  IF i > Len(p) THEN 0
  ELSE IF p[i] = "]" /\ ~first THEN i
  ELSE IF p[i] = "\\" THEN
    IF i + 1 > Len(p) \/ p[i + 1] \notin EscapeChars THEN 0
    ELSE ClassEnd(p, i + 2, FALSE)
  ELSE ClassEnd(p, i + 1, FALSE)

\* Index of the last digit of the run of digits starting at i (i - 1 when
\* there is none).
RECURSIVE DigitsEnd(_, _)
DigitsEnd(p, i) ==
  IF i <= Len(p) /\ p[i] \in Digits THEN DigitsEnd(p, i + 1) ELSE i - 1

\* Index of the "}" closing the counted repetition whose "{" is at i
\* (0 when it is malformed): {n}, {n,} or {n,m}.
CountedEnd(p, i) ==
  LET d1 == DigitsEnd(p, i + 1) IN
  IF d1 < i + 1 \/ d1 + 1 > Len(p) THEN 0
  ELSE IF p[d1 + 1] = "}" THEN d1 + 1
  ELSE IF p[d1 + 1] # "," THEN 0
  ELSE LET d2 == DigitsEnd(p, d1 + 2) IN
       IF d2 + 1 <= Len(p) /\ p[d2 + 1] = "}" THEN d2 + 1 ELSE 0

\* Index of the last flag character of the run starting at i.
RECURSIVE FlagsEnd(_, _)
FlagsEnd(p, i) ==
  IF i <= Len(p) /\ p[i] \in FlagChars THEN FlagsEnd(p, i + 1) ELSE i - 1

\* The parse from position i, inside depth open groups; atom tells that an
\* expression a repetition operator can apply to has just been read.
RECURSIVE RegexScan(_, _, _, _)
RegexScan(p, i, depth, atom) ==
  IF i > Len(p) THEN depth = 0
  ELSE LET c == p[i] IN
    CASE c \notin MetaChars -> RegexScan(p, i + 1, depth, TRUE)
      [] c = "\\" ->
           /\ i + 1 <= Len(p)
           /\ p[i + 1] \in EscapeChars
           /\ RegexScan(p, i + 2, depth, TRUE)
      [] c = "(" ->
           IF i + 1 <= Len(p) /\ p[i + 1] = "?" THEN
             LET f == FlagsEnd(p, i + 2) IN
             IF f + 1 > Len(p) THEN FALSE
             ELSE IF p[f + 1] = ":" THEN RegexScan(p, f + 2, depth + 1, FALSE)
             ELSE IF p[f + 1] = ")" /\ f >= i + 2
                  THEN RegexScan(p, f + 2, depth, FALSE)
             ELSE FALSE
           ELSE RegexScan(p, i + 1, depth + 1, FALSE)
      [] c = ")" ->
           /\ depth > 0
           /\ RegexScan(p, i + 1, depth - 1, TRUE)
      [] c = "[" ->
           LET start == IF i + 1 <= Len(p) /\ p[i + 1] = "^" THEN i + 2 ELSE i + 1
               e == ClassEnd(p, start, TRUE) IN
           /\ e # 0
           /\ RegexScan(p, e + 1, depth, TRUE)
      [] c \in {"*", "+", "?"} ->
           /\ atom
           /\ RegexScan(p, i + 1, depth, TRUE)
      [] c = "{" ->
           LET e == CountedEnd(p, i) IN
           /\ atom
           /\ e # 0
           /\ RegexScan(p, e + 1, depth, TRUE)
      [] c = "|" -> RegexScan(p, i + 1, depth, FALSE)
      [] OTHER -> RegexScan(p, i + 1, depth, TRUE)

\* Regex::new(&expr): Ok(regex) or Err(_)
RegexNew(expr) ==
  IF RegexScan(expr, 1, 0, FALSE)
  THEN [ok |-> TRUE, regex |-> expr]
  ELSE [ok |-> FALSE, regex |-> <<>>]

(***************************************************************************)
(* HashMap.                                                                *)
(***************************************************************************)
\* HashMap::new()
EmptyMap == [k \in {} |-> <<>>]

\* HashMap::insert: a later insertion of a key replaces the earlier one
MapInsert(m, k, v) ==
  [x \in (DOMAIN m) \cup {k} |-> IF x = k THEN v ELSE m[x]]

\* One enumeration of a finite set.
RECURSIVE SetToSeq(_)
SetToSeq(S) ==
  IF S = {} THEN <<>>
  ELSE LET x == CHOOSE y \in S : TRUE IN <<x>> \o SetToSeq(S \ {x})

Reverse(s) == [i \in 1..Len(s) |-> s[Len(s) + 1 - i]]

Rotate(s, n) ==
  IF Len(s) = 0 THEN s
  ELSE [i \in 1..Len(s) |-> s[((i - 1 + n) % Len(s)) + 1]]

\* The order in which a HashMap with these keys is iterated: unspecified by
\* the standard library, here decided by the seed of the map's hasher.
IterOrder(keys, seed) ==
  LET r == Rotate(SetToSeq(keys), seed \div 2) IN
  IF seed % 2 = 1 THEN Reverse(r) ELSE r

(***************************************************************************)
(* The hard-coded configuration of Reader::read.                           *)
(***************************************************************************)
rust_kw ==
  << <<"a","s">>,
     <<"b","r","e","a","k">>,
     <<"c","o","n","s","t">>,
     <<"c","o","n","t","i","n","u","e">>,
     <<"c","r","a","t","e">>,
     <<"e","l","s","e">>,
     <<"e","n","u","m">>,
     <<"e","x","t","e","r","n">>,
     <<"f","n">>,
     <<"f","o","r">>,
     <<"i","f">>,
     <<"i","m","p","l">>,
     <<"i","n">>,
     <<"l","e","t">>,
     <<"l","o","o","p">>,
     <<"m","a","t","c","h">>,
     <<"m","o","d">>,
     <<"m","o","v","e">>,
     <<"m","u","t">>,
     <<"p","u","b">>,
     <<"r","e","f">>,
     <<"r","e","t","u","r","n">>,
     <<"s","e","l","f">>,
     <<"s","t","a","t","i","c">>,
     <<"s","t","r","u","c","t">>,
     <<"s","u","p","e","r">>,
     <<"t","r","a","i","t">>,
     <<"t","y","p","e">>,
     <<"u","n","s","a","f","e">>,
     <<"u","s","e">>,
     <<"w","h","e","r","e">>,
     <<"w","h","i","l","e">>,
     <<"a","s","y","n","c">>,
     <<"a","w","a","i","t">>,
     <<"d","y","n">>,
     <<"a","b","s","t","r","a","c","t">>,
     <<"b","e","c","o","m","e">>,
     <<"b","o","x">>,
     <<"d","o">>,
     <<"f","i","n","a","l">>,
     <<"m","a","c","r","o">>,
     <<"o","v","e","r","r","i","d","e">>,
     <<"p","r","i","v">>,
     <<"t","y","p","e","o","f">>,
     <<"u","n","s","i","z","e","d">>,
     <<"v","i","r","t","u","a","l">>,
     <<"y","i","e","l","d">>,
     <<"t","r","y">>,
     <<"'","s","t","a","t","i","c">> >>

DefaultDefinitions ==
  [
    \* (?m)(//.*)$
    comments |-> << <<"(","?","m",")","(","/","/",".","*",")","$">> >>,
    \* (".*?")
    strings |-> << <<"(","\"",".","*","?","\"",")">> >>,
    \* ('.')
    characters |-> << <<"(","'",".","'",")">> >>,
    \* (\d+.\d+|\d+)
    digits |-> << <<"(","\\","d","+",".","\\","d","+","|","\\","d","+",")">> >>,
    \* \b(true|false)\b
    booleans |-> << <<"\\","b","(","t","r","u","e","|","f","a","l","s","e",")","\\","b">> >>,
    \* \b\s+([a-z_]*)\b\(
    functions |-> << <<"\\","b","\\","s","+","(","[","a","-","z","_","]","*",")","\\","b","\\","(">> >>,
    \* \b([A-Z][A-Za-z_]*)\b\s*\{
    structs |-> << <<"\\","b","(","[","A","-","Z","]","[","A","-","Z","a","-","z","_","]","*",")","\\","b","\\","s","*","\\","{">> >>,
    \* \b([a-z_][a-zA-Z_]*!)
    macros |-> << <<"\\","b","(","[","a","-","z","_","]","[","a","-","z","A","-","Z","_","]","*","!",")">> >>,
    \* (?m)^\s*(#(?:!|)\[.*?\])
    attributes |-> << <<"(","?","m",")","^","\\","s","*","(","#","(","?",":","!","|",")","\\","[",".","*","?","\\","]",")">> >>
  ]

\* DefaultConfig with another tab width
DefaultConfigTabWidth8 ==
  [ general |->
      [ line_number_padding_right |-> 2,
        line_number_padding_left |-> 1,
        tab_width |-> 8,
        undo_period |-> 5 ],
    theme |->
      [ editor_bg |-> <<41, 41, 61>>,
        editor_fg |-> <<255, 255, 255>>,
        status_bg |-> <<59, 59, 84>>,
        status_fg |-> <<35, 240, 144>>,
        line_number_fg |-> <<65, 65, 98>> ],
    highlights |->
      [ comments |-> <<113, 113, 169>>,
        keywords |-> <<134, 76, 232>>,
        strings |-> <<39, 222, 145>>,
        characters |-> <<40, 198, 232>>,
        digits |-> <<40, 198, 232>>,
        booleans |-> <<86, 217, 178>>,
        functions |-> <<47, 141, 252>>,
        structs |-> <<47, 141, 252>>,
        macros |-> <<223, 52, 249>>,
        attributes |-> <<40, 198, 232>> ],
    languages |->
      << [ name |-> "Rust",
           icon |-> "\\u{e7a8} ",
           extensions |-> <<"rs">>,
           keywords |-> rust_kw,
           definitions |-> DefaultDefinitions ] >> ]

DefaultConfig ==
  [ general |->
      [ line_number_padding_right |-> 2,
        line_number_padding_left |-> 1,
        tab_width |-> 4,
        undo_period |-> 5 ],
    theme |->
      [ editor_bg |-> <<41, 41, 61>>,
        editor_fg |-> <<255, 255, 255>>,
        status_bg |-> <<59, 59, 84>>,
        status_fg |-> <<35, 240, 144>>,
        line_number_fg |-> <<65, 65, 98>> ],
    highlights |->
      [ comments |-> <<113, 113, 169>>,
        keywords |-> <<134, 76, 232>>,
        strings |-> <<39, 222, 145>>,
        characters |-> <<40, 198, 232>>,
        digits |-> <<40, 198, 232>>,
        booleans |-> <<86, 217, 178>>,
        functions |-> <<47, 141, 252>>,
        structs |-> <<47, 141, 252>>,
        macros |-> <<223, 52, 249>>,
        attributes |-> <<40, 198, 232>> ],
    languages |->
      << [ name |-> "Rust",
           icon |-> "\\u{e7a8} ",
           extensions |-> <<"rs">>,
           keywords |-> rust_kw,
           definitions |-> DefaultDefinitions ] >> ]

(***************************************************************************)
(* Path expansion and the file system, as Reader::read uses them.  A path  *)
(* is its sequence of segments.                                            *)
(***************************************************************************)
HomeDir == <<"home", "u">>

\* the segments that name an environment variable
VarSegments == {"$XDG_CONFIG_HOME", "$OX_UNSET"}

RECURSIVE ExpandSegments(_, _)
ExpandSegments(p, environment) ==
  IF p = <<>> THEN <<>>
  ELSE (IF Head(p) \in VarSegments THEN environment[Head(p)] ELSE <<Head(p)>>)
         \o ExpandSegments(Tail(p), environment)

\* shellexpand::full: a leading ~ becomes the home directory and every
\* $VAR its value; a variable that is not set is an error.
ShellExpandFull(p, environment) ==
  IF \E i \in 1..Len(p) : p[i] \in VarSegments /\ p[i] \notin DOMAIN environment
  THEN [ok |-> FALSE, value |-> <<>>]
  ELSE [ok |-> TRUE,
        value |-> IF p # <<>> /\ Head(p) = "~"
                  THEN HomeDir \o ExpandSegments(Tail(p), environment)
                  ELSE ExpandSegments(p, environment)]

\* fs::read_to_string: Ok(text) for a regular file holding UTF-8 text,
\* Err(_) for everything else.
ReadToString(fsys, p) ==
  IF p \in DOMAIN fsys /\ fsys[p].kind = "File"
  THEN [ok |-> TRUE, text |-> fsys[p].text]
  ELSE [ok |-> FALSE, text |-> <<>>]

(***************************************************************************)
(* ron::de::from_str::<Reader>.  A text is its sequence of tokens: "(",    *)
(* ")" and the fields, each a name with the kind of value written for it   *)
(* and the value.  Fields may come in any order; an unknown field is       *)
(* skipped; the four fields of Reader are required, each once, with a      *)
(* value of its kind.                                                      *)
(***************************************************************************)
FieldKind ==
  [ general |-> "struct", theme |-> "struct",
    highlights |-> "map", languages |-> "list" ]

ReaderFields == DOMAIN FieldKind

OpenTok == [tok |-> "("]
CloseTok == [tok |-> ")"]
\* a field: its name with the value written for it, and the kind of that value
FieldTok(f, k, v) == [tok |-> "field", kind |-> k, item |-> [n \in {f} |-> v]]
FieldName(t) == CHOOSE f \in DOMAIN t.item : TRUE

ParseOk(v) == [ok |-> TRUE, err |-> [code |-> "", field |-> "", at |-> 0], value |-> v]
ParseErr(c, f, i) == [ok |-> FALSE, err |-> [code |-> c, field |-> f, at |-> i], value |-> EmptyMap]

\* the fields read so far are in acc; i is the next token
RECURSIVE ParseFields(_, _, _)
ParseFields(text, i, acc) ==
  IF i > Len(text) THEN ParseErr("Eof", "", i)
  ELSE LET t == text[i] IN
    IF t.tok = ")" THEN
      IF DOMAIN acc # ReaderFields
      THEN ParseErr("MissingField", CHOOSE f \in ReaderFields : f \notin DOMAIN acc, i)
      ELSE IF i < Len(text) THEN ParseErr("TrailingCharacters", "", i + 1)
      ELSE ParseOk(acc)
    ELSE IF t.tok = "(" THEN ParseErr("ExpectedIdentifier", "", i)
    ELSE IF FieldName(t) \notin ReaderFields THEN ParseFields(text, i + 1, acc)
    ELSE IF FieldName(t) \in DOMAIN acc THEN ParseErr("DuplicateField", FieldName(t), i)
    ELSE IF t.kind # FieldKind[FieldName(t)] THEN ParseErr("ExpectedKind", FieldName(t), i)
    ELSE ParseFields(text, i + 1, MapInsert(acc, FieldName(t), t.item[FieldName(t)]))

FromStr(text) ==
  IF text = <<>> THEN ParseErr("Eof", "", 1)
  ELSE IF text[1].tok # "(" THEN ParseErr("ExpectedStruct", "", 1)
  ELSE ParseFields(text, 2, EmptyMap)

\* format!("{:?}", result) of a Result<Reader, ron::Error>
FormatDebug(result) ==
  IF result.ok THEN [head |-> "Ok(", body |-> result.value, tail |-> ")"]
  ELSE [head |-> "Err(", body |-> result.err, tail |-> ")"]

(***************************************************************************)
(* Reader::read                                                            *)
(***************************************************************************)
NoDiagnostic == [head |-> "", body |-> EmptyMap, tail |-> ""]

StatusFile == [tag |-> "File", diagnostic |-> NoDiagnostic]
StatusSuccess == [tag |-> "Success", diagnostic |-> NoDiagnostic]
StatusParse(d) == [tag |-> "Parse", diagnostic |-> d]

\* the path handed to fs::read_to_string
ExpandedPath(config, environment) ==
  LET e == ShellExpandFull(config, environment) IN
  IF e.ok THEN e.value ELSE config

\* ReadResult with the status of the unreadable file mistaken for Success
ReadResultSuccessOnFileError(config, fsys, environment) ==
  LET file == ReadToString(fsys, ExpandedPath(config, environment)) IN
  IF file.ok THEN
    LET contents == FromStr(file.text) IN
    IF contents.ok
    THEN [cfg |-> contents.value, status |-> StatusSuccess]
    ELSE LET result == FromStr(file.text) IN
         [cfg |-> DefaultConfig, status |-> StatusParse(FormatDebug(result))]
  ELSE [cfg |-> DefaultConfig, status |-> StatusSuccess]

\* ReadResult with the second parse given another text than the first
ReadResultReparseOtherText(config, fsys, environment) ==
  LET file == ReadToString(fsys, ExpandedPath(config, environment)) IN
  IF file.ok THEN
    LET contents == FromStr(file.text) IN
    IF contents.ok
    THEN [cfg |-> contents.value, status |-> StatusSuccess]
    ELSE LET result == FromStr(<<>>) IN
         [cfg |-> DefaultConfig, status |-> StatusParse(FormatDebug(result))]
  ELSE [cfg |-> DefaultConfig, status |-> StatusFile]

ReadResult(config, fsys, environment) ==
  LET file == ReadToString(fsys, ExpandedPath(config, environment)) IN
  IF file.ok THEN
    LET contents == FromStr(file.text) IN
    IF contents.ok
    THEN [cfg |-> contents.value, status |-> StatusSuccess]
    ELSE LET result == FromStr(file.text) IN
         [cfg |-> DefaultConfig, status |-> StatusParse(FormatDebug(result))]
  ELSE [cfg |-> DefaultConfig, status |-> StatusFile]

(***************************************************************************)
(* Reader::get_syntax_regex                                                *)
(***************************************************************************)
\* Contains looking at the first element only
ContainsFirstOnly(v, x) == Len(v) >= 1 /\ v[1] = x

\* Vec::contains
Contains(v, x) == \E i \in 1..Len(v) : v[i] = x

\* CompileExpressions without the test for the prefix (?sm)
RECURSIVE CompileExpressionsOnePrefix(_)
CompileExpressionsOnePrefix(reg) ==
  IF reg = <<>> THEN <<>>
  ELSE LET expr == Head(reg)
           regx == RegexNew(expr)
           rest == CompileExpressionsOnePrefix(Tail(reg)) IN
       IF ~StartsWith(expr, <<"(", "?", "m", "s", ")">>) /\ regx.ok
       THEN <<regx.regex>> \o rest
       ELSE rest

\* the inner loop over the pattern strings of one category
RECURSIVE CompileExpressions(_)
CompileExpressions(reg) ==
  IF reg = <<>> THEN <<>>
  ELSE LET expr == Head(reg)
           regx == RegexNew(expr)
           rest == CompileExpressions(Tail(reg)) IN
       IF ~StartsWith(expr, <<"(", "?", "m", "s", ")">>)
          /\ ~StartsWith(expr, <<"(", "?", "s", "m", ")">>)
          /\ regx.ok
       THEN <<regx.regex>> \o rest
       ELSE rest

\* InsertDefinitions leaving the loop after the first category
InsertDefinitionsFirstOnly(result, definitions, order) ==
  IF order = <<>> THEN result
  ELSE MapInsert(result, Head(order), CompileExpressions(definitions[Head(order)]))

\* the loop over the definitions, in the map's iteration order
RECURSIVE InsertDefinitions(_, _, _)
InsertDefinitions(result, definitions, order) ==
  IF order = <<>> THEN result
  ELSE InsertDefinitions(
         MapInsert(result, Head(order), CompileExpressions(definitions[Head(order)])),
         definitions, Tail(order))

\* WrapKeyword without the word boundaries
WrapKeywordNoBoundary(x) == <<"(">> \o x \o <<")">>

\* format!(r"\b({})\b", x)
WrapKeyword(x) == <<"\\", "b", "(">> \o x \o <<")", "\\", "b">>

\* the Result of Regex::new for each keyword
CompileKeywords(keywords) ==
  [i \in 1..Len(keywords) |-> RegexNew(WrapKeyword(keywords[i]))]

\* LanguageLoop taking the definitions of the language that matched
RECURSIVE LanguageLoopOwnDefinitions(_, _, _, _, _)
LanguageLoopOwnDefinitions(config, extension, seed, i, result) ==
  IF i > Len(config.languages) THEN [panic |-> FALSE, result |-> result]
  ELSE LET lang == config.languages[i] IN
    IF Contains(lang.extensions, extension) THEN
      LET definitions == lang.definitions
          r == InsertDefinitions(result, definitions,
                                 IterOrder(DOMAIN definitions, seed))
          compiled == CompileKeywords(lang.keywords) IN
      \* the unwrap() of a keyword's Err panics
      IF \E k \in 1..Len(compiled) : ~compiled[k].ok
      THEN [panic |-> TRUE, result |-> EmptyMap]
      ELSE LanguageLoopOwnDefinitions(config, extension, seed, i + 1,
             MapInsert(r, "keywords", [k \in 1..Len(compiled) |-> compiled[k].regex]))
    ELSE LanguageLoopOwnDefinitions(config, extension, seed, i + 1, result)

\* the loop over config.languages from index i on
RECURSIVE LanguageLoop(_, _, _, _, _)
LanguageLoop(config, extension, seed, i, result) ==
  IF i > Len(config.languages) THEN [panic |-> FALSE, result |-> result]
  ELSE LET lang == config.languages[i] IN
    IF Contains(lang.extensions, extension) THEN
      LET definitions == config.languages[1].definitions
          r == InsertDefinitions(result, definitions,
                                 IterOrder(DOMAIN definitions, seed))
          compiled == CompileKeywords(lang.keywords) IN
      \* the unwrap() of a keyword's Err panics
      IF \E k \in 1..Len(compiled) : ~compiled[k].ok
      THEN [panic |-> TRUE, result |-> EmptyMap]
      ELSE LanguageLoop(config, extension, seed, i + 1,
             MapInsert(r, "keywords", [k \in 1..Len(compiled) |-> compiled[k].regex]))
    ELSE LanguageLoop(config, extension, seed, i + 1, result)

GetSyntaxRegexResult(config, extension, seed) ==
  LanguageLoop(config, extension, seed, 1, EmptyMap)

(***************************************************************************)
(* The inputs: configuration files, file systems, environments, paths and  *)
(* extensions.                                                             *)
(***************************************************************************)
kw_def == <<"d","e","f">>
kw_if == <<"i","f">>
kw_fn == <<"f","n">>
kw_paren == <<"(">>

LangAlpha ==
  [ name |-> "Alpha", icon |-> "a ", extensions |-> <<"hx", "x">>,
    keywords |-> <<kw_fn>>,
    definitions |->
      [ \* (?ms)a   a   (   (?m)b
        comments |-> << <<"(","?","m","s",")","a">>, <<"a">>, <<"(">>,
                        <<"(","?","m",")","b">> >>,
        \* z
        keywords |-> << <<"z">> >>,
        \* (?sm)a   a)
        blocks |-> << <<"(","?","s","m",")","a">>, <<"a",")">> >> ] ]

LangPython ==
  [ name |-> "Python", icon |-> "py ", extensions |-> <<"py", "x">>,
    keywords |-> <<kw_def, kw_if>>,
    definitions |->
      [ \* (".*?")
        strings |-> << <<"(","\"",".","*","?","\"",")">> >>,
        \* \d+   [0-9   a{2}   *a
        digits |-> << <<"\\","d","+">>, <<"[","0","-","9">>,
                      <<"a","{","2","}">>, <<"*","a">> >> ] ]

LangGamma ==
  [ name |-> "Gamma", icon |-> "g ", extensions |-> <<"bad">>,
    keywords |-> <<kw_if, kw_paren>>,
    definitions |-> EmptyMap ]

LangPool == {LangAlpha, LangPython, LangGamma}

LanguageLists == UNION { [1..n -> LangPool] : n \in 0..MaxLangs }

UserConfig(langs) ==
  [ general |->
      [ line_number_padding_right |-> 1,
        line_number_padding_left |-> 1,
        tab_width |-> 2,
        undo_period |-> 10 ],
    theme |->
      [ editor_bg |-> <<0, 0, 0>>,
        editor_fg |-> <<255, 255, 255>>,
        status_bg |-> <<10, 10, 10>>,
        status_fg |-> <<200, 200, 200>>,
        line_number_fg |-> <<90, 90, 90>> ],
    highlights |-> [ strings |-> <<39, 222, 145>> ],
    languages |-> langs ]

FieldOrder == <<"general", "theme", "highlights", "languages">>

\* the text of a configuration, its fields written in the given order
Serialize(c, order) ==
  <<OpenTok>>
    \o [i \in 1..Len(order) |-> FieldTok(order[i], FieldKind[order[i]], c[order[i]])]
    \o <<CloseTok>>

SampleConfig == UserConfig(<<LangPython>>)

WellFormedTexts ==
  { Serialize(UserConfig(l), FieldOrder) : l \in LanguageLists }
    \cup { Serialize(SampleConfig, Reverse(FieldOrder)),
           \* an unknown field is skipped
           <<OpenTok, FieldTok("version", "struct", EmptyMap)>>
             \o Tail(Serialize(SampleConfig, FieldOrder)) }

MalformedTexts ==
  LET t == Serialize(SampleConfig, FieldOrder) IN
  { <<>>,
    \* the closing parenthesis is missing
    SubSeq(t, 1, Len(t) - 1),
    \* the opening parenthesis is missing
    Tail(t),
    \* a field is missing
    Serialize(SampleConfig, <<"general", "theme", "languages">>),
    \* a field is written twice
    Serialize(SampleConfig, FieldOrder \o <<"theme">>),
    \* a value of the wrong kind
    <<OpenTok, FieldTok("languages", "string", <<>>)>> \o Tail(t),
    \* text after the closing parenthesis
    t \o <<CloseTok>> }

Unreadable ==
  { [kind |-> k, text |-> <<>>] :
      k \in {"NotFound", "PermissionDenied", "IsADirectory", "InvalidUtf8"} }

RegularFile(t) == [kind |-> "File", text |-> t]

FileStates ==
  Unreadable \cup { RegularFile(t) : t \in WellFormedTexts \cup MalformedTexts }

\* the user's configuration file, and a file whose name is the unexpanded
\* path
HomeConfigPath == <<"home", "u", ".config", "ox", "ox.ron">>
UnsetVarPath == <<"$OX_UNSET", "ox.ron">>

FileSystems ==
  { [p \in {HomeConfigPath, UnsetVarPath} |-> IF p = HomeConfigPath THEN h ELSE u] :
      h \in FileStates,
      u \in { [kind |-> "NotFound", text |-> <<>>],
              RegularFile(Serialize(UserConfig(<<LangAlpha>>), FieldOrder)) } }

Environments ==
  { EmptyMap,
    [v \in {"$XDG_CONFIG_HOME"} |-> <<"home", "u", ".config">>] }

Paths ==
  { <<"~", ".config", "ox", "ox.ron">>,
    <<"$XDG_CONFIG_HOME", "ox", "ox.ron">>,
    UnsetVarPath,
    <<"nonexistent", "ox.ron">> }

Extensions == {"rs", "RS", "py", "x", "bad", "xyz"}

Seeds == 0..(NumSeeds - 1)

(***************************************************************************)
(* The state: the file system and environment the process runs in, the     *)
(* configuration and status the last Reader::read returned, and the        *)
(* outcome of the last Reader::get_syntax_regex on that configuration.     *)
(***************************************************************************)
VARIABLES fs, env, path, cfg, status, extension, rules, outcome

vars == <<fs, env, path, cfg, status, extension, rules, outcome>>

NoConfig == EmptyMap

Init ==
  /\ fs \in FileSystems
  /\ env \in Environments
  /\ path = <<>>
  /\ cfg = NoConfig
  /\ status = [tag |-> "None", diagnostic |-> NoDiagnostic]
  /\ extension = ""
  /\ rules = EmptyMap
  /\ outcome = "idle"

\* Reader::read(config): the caller now holds a new configuration and no
\* rules compiled from it yet.  A process that aborted is started again by
\* reading its configuration.
Read(config) ==
  LET r == ReadResult(config, fs, env) IN
  /\ path' = config
  /\ cfg' = r.cfg
  /\ status' = r.status
  /\ extension' = ""
  /\ rules' = EmptyMap
  /\ outcome' = "idle"
  /\ UNCHANGED <<fs, env>>

\* Reader::get_syntax_regex(&cfg, extension): returns the mapping, or the
\* process aborts in the unwrap() of a keyword.
GetSyntaxRegex(ext, seed) ==
  LET r == GetSyntaxRegexResult(cfg, ext, seed) IN
  /\ cfg # NoConfig
  /\ outcome # "panicked"
  /\ extension' = ext
  /\ rules' = r.result
  /\ outcome' = IF r.panic THEN "panicked" ELSE "returned"
  /\ UNCHANGED <<fs, env, path, cfg, status>>

Next ==
  \/ \E config \in Paths : Read(config)
  \/ \E ext \in Extensions, seed \in Seeds : GetSyntaxRegex(ext, seed)

Spec == Init /\ [][Next]_vars

(***************************************************************************)
(* Definitions the properties are stated with.                             *)
(***************************************************************************)
\* Reader::read has returned
HasRead == path # <<>>

\* the file Reader::read tried to read: the expansion of the path, or the
\* path itself when the expansion failed
ExpansionOk == ShellExpandFull(path, env).ok
TargetFile == IF ExpansionOk THEN ShellExpandFull(path, env).value ELSE path
Readable == TargetFile \in DOMAIN fs /\ fs[TargetFile].kind = "File"

\* Reader::get_syntax_regex has returned a mapping
Returned == outcome = "returned"

ExtensionsOf(lang) == { lang.extensions[i] : i \in 1..Len(lang.extensions) }

\* the languages of the configuration that declare the extension
Matching == { i \in 1..Len(cfg.languages) : extension \in ExtensionsOf(cfg.languages[i]) }
FirstMatch == CHOOSE i \in Matching : \A j \in Matching : i <= j
LastMatch == CHOOSE i \in Matching : \A j \in Matching : j <= i

\* a pattern string that is compiled into its category's list
Survives(expr) ==
  /\ ~(Len(expr) >= 5 /\ SubSeq(expr, 1, 5) \in { <<"(","?","m","s",")">>, <<"(","?","s","m",")">> })
  /\ RegexScan(expr, 1, 0, FALSE)

Survivors(reg) == SelectSeq(reg, Survives)

\* \b(kw)\b
Wrapped(kw) == <<"\\", "b", "(">> \o kw \o <<")", "\\", "b">>

WordChars ==
  {"a","b","c","d","e","f","g","h","i","j","k","l","m","n","o","p","q","r",
   "s","t","u","v","w","x","y","z","_"}

\* Regex::is_match for a pattern ( literal ), with or without \b on its
\* sides: the literal occurs in the text, between word boundaries where
\* the pattern asks for them.
IsWordAt(text, i) == i >= 1 /\ i <= Len(text) /\ text[i] \in WordChars
Boundary(text, i) == IsWordAt(text, i - 1) # IsWordAt(text, i)
IsMatch(regex, text) ==
  LET left == StartsWith(regex, <<"\\", "b">>)
      n == Len(regex)
      right == n >= 2 /\ SubSeq(regex, n - 1, n) = <<"\\", "b">>
      lit == SubSeq(regex, (IF left THEN 4 ELSE 2), (IF right THEN n - 3 ELSE n - 1)) IN
  \E i \in 1..Len(text) :
    /\ i + Len(lit) - 1 <= Len(text)
    /\ SubSeq(text, i, i + Len(lit) - 1) = lit
    /\ left => Boundary(text, i)
    /\ right => Boundary(text, i + Len(lit))

\* fn main()   and   function
TextFnMain == <<"f","n"," ","m","a","i","n","(",")">>
TextFunction == <<"f","u","n","c","t","i","o","n">>

(***************************************************************************)
(* C1.  Reader::read always returns a configuration with its four parts    *)
(* and one of the three statuses; when the file it tried to read (the      *)
(* expanded path, or the path as given when the expansion failed) cannot   *)
(* be read, the configuration is the built-in default and the status is    *)
(* File.                                                                   *)
(***************************************************************************)
C1_ReadNeverFails ==
  HasRead =>
    /\ DOMAIN cfg = {"general", "theme", "highlights", "languages"}
    /\ status.tag \in {"File", "Success", "Parse"}
    /\ ~Readable => (cfg = DefaultConfig /\ status.tag = "File")

\* the expansion failed and the file named by the unexpanded path is absent
C1_Witness ==
  /\ HasRead
  /\ ~ExpansionOk
  /\ ~Readable
  /\ cfg = DefaultConfig
  /\ status.tag = "File"

(***************************************************************************)
(* C2.  When the file can be read, the status is Success with the parsed   *)
(* configuration exactly when the text deserializes; otherwise the         *)
(* configuration is the default and the status is Parse, with a non-empty  *)
(* diagnostic that shows the error of parsing that same text.              *)
(***************************************************************************)
C2_ParseOutcome ==
  (HasRead /\ Readable) =>
    LET parsed == FromStr(fs[TargetFile].text) IN
    IF parsed.ok
    THEN status.tag = "Success" /\ cfg = parsed.value
    ELSE /\ cfg = DefaultConfig
         /\ status.tag = "Parse"
         /\ status.diagnostic.head = "Err("
         /\ status.diagnostic.body = parsed.err
         /\ status.diagnostic.body.code # ""

\* a file that misses a field was read
C2_Witness ==
  /\ HasRead
  /\ Readable
  /\ status.tag = "Parse"
  /\ status.diagnostic.body.code = "MissingField"
  /\ cfg = DefaultConfig

(***************************************************************************)
(* C3.  Reader::read on a nonexistent path returns status File and the     *)
(* built-in default: the fixed general settings and theme, a palette of    *)
(* 10 entries, and one language, Rust, for "rs", with the 9 categories,    *)
(* each with at least one pattern.                                         *)
(***************************************************************************)
C3_DefaultConfiguration ==
  path = <<"nonexistent", "ox.ron">> =>
    /\ status.tag = "File"
    /\ cfg.general = [ line_number_padding_right |-> 2, line_number_padding_left |-> 1,
                       tab_width |-> 4, undo_period |-> 5 ]
    /\ cfg.theme = [ editor_bg |-> <<41, 41, 61>>, editor_fg |-> <<255, 255, 255>>,
                     status_bg |-> <<59, 59, 84>>, status_fg |-> <<35, 240, 144>>,
                     line_number_fg |-> <<65, 65, 98>> ]
    /\ Cardinality(DOMAIN cfg.highlights) = 10
    /\ Len(cfg.languages) = 1
    /\ cfg.languages[1].name = "Rust"
    /\ cfg.languages[1].extensions = <<"rs">>
    /\ DOMAIN cfg.languages[1].definitions =
         {"comments", "strings", "characters", "digits", "booleans",
          "functions", "structs", "macros", "attributes"}
    /\ \A n \in DOMAIN cfg.languages[1].definitions :
         Len(cfg.languages[1].definitions[n]) >= 1

C3_Witness ==
  /\ path = <<"nonexistent", "ox.ron">>
  /\ status.tag = "File"
  /\ Len(cfg.languages) = 1

(***************************************************************************)
(* C4.  get_syntax_regex returns the empty mapping, without aborting, when *)
(* no language lists the extension (the strings compared as they are);     *)
(* when some language lists it, the mapping returned has "keywords".       *)
(***************************************************************************)
C4_UnknownExtension ==
  outcome # "idle" =>
    IF Matching = {}
    THEN Returned /\ DOMAIN rules = {}
    ELSE Returned => "keywords" \in DOMAIN rules

\* "RS" asked of the default configuration, which declares "rs"
C4_Witness ==
  /\ Returned
  /\ extension = "RS"
  /\ cfg = DefaultConfig
  /\ DOMAIN rules = {}

(***************************************************************************)
(* C5 as claimed.  For a matched extension every category of the           *)
(* definitions is a key of the result, with exactly the patterns of the    *)
(* category that neither start with (?ms) or (?sm) nor fail to compile,    *)
(* in their order.                                                         *)
(***************************************************************************)
C5_EveryCategoryFiltered ==
  (Returned /\ Matching # {}) =>
    \A n \in DOMAIN cfg.languages[1].definitions :
      /\ n \in DOMAIN rules
      /\ rules[n] = Survivors(cfg.languages[1].definitions[n])

(***************************************************************************)
(* C5 amended.  The same, for every category but one named "keywords",     *)
(* whose entry is the list compiled from the keywords.                     *)
(***************************************************************************)
C5_CategoriesFiltered ==
  (Returned /\ Matching # {}) =>
    \A n \in DOMAIN cfg.languages[1].definitions :
      /\ n \in DOMAIN rules
      /\ n # "keywords" => rules[n] = Survivors(cfg.languages[1].definitions[n])

\* patterns were dropped from one category and another is left empty
C5_Witness ==
  /\ Returned
  /\ Matching # {}
  /\ \E n \in DOMAIN rules :
       /\ n \in DOMAIN cfg.languages[1].definitions
       /\ rules[n] # <<>>
       /\ Len(rules[n]) < Len(cfg.languages[1].definitions[n])
  /\ \E n \in DOMAIN rules :
       /\ n \in DOMAIN cfg.languages[1].definitions
       /\ rules[n] = <<>>
       /\ cfg.languages[1].definitions[n] # <<>>

(***************************************************************************)
(* C6.  For a matched extension "keywords" holds one matcher per keyword   *)
(* of the matched language (the last one, when several declare the         *)
(* extension), in order, each compiled from \b(keyword)\b, so that the     *)
(* matcher of fn matches in "fn main()" and not in "function"; a category  *)
(* of the definitions named "keywords" is replaced by it.                  *)
(***************************************************************************)
C6_KeywordsEntry ==
  (Returned /\ Matching # {}) =>
    LET kws == cfg.languages[LastMatch].keywords IN
    /\ "keywords" \in DOMAIN rules
    /\ rules["keywords"] = [i \in 1..Len(kws) |-> Wrapped(kws[i])]
    /\ \A i \in 1..Len(kws) :
         kws[i] = kw_fn =>
           /\ IsMatch(rules["keywords"][i], TextFnMain)
           /\ ~IsMatch(rules["keywords"][i], TextFunction)

\* the definitions have a category named "keywords" and fn is a keyword
C6_Witness ==
  /\ Returned
  /\ Matching # {}
  /\ "keywords" \in DOMAIN cfg.languages[1].definitions
  /\ rules["keywords"] = <<Wrapped(kw_fn)>>
  /\ Survivors(cfg.languages[1].definitions["keywords"]) # <<>>

(***************************************************************************)
(* C7 as claimed.  When several languages declare the extension, the       *)
(* result is that of the first of them: "keywords" holds the keywords of   *)
(* the first language that declares the extension.                         *)
(***************************************************************************)
C7_FirstMatchWins ==
  (Returned /\ Cardinality(Matching) >= 2) =>
    LET kws == cfg.languages[FirstMatch].keywords IN
    rules["keywords"] = [i \in 1..Len(kws) |-> Wrapped(kws[i])]

(***************************************************************************)
(* C8 as claimed.  get_syntax_regex never aborts the process, whatever     *)
(* configuration Reader::read returned and whatever the extension.         *)
(***************************************************************************)
C8_NeverAborts == outcome # "panicked"

(***************************************************************************)
(* C9.  The categories of the result other than "keywords" are those of    *)
(* the definitions of the first language of the list, whichever language   *)
(* declares the extension, and "keywords" is compiled from the keywords    *)
(* of the language that declares it (the last one, when several do).       *)
(***************************************************************************)
C9_DefinitionsOfFirstLanguage ==
  (Returned /\ Matching # {}) =>
    LET first == cfg.languages[1].definitions
        kws == cfg.languages[LastMatch].keywords IN
    /\ DOMAIN rules = (DOMAIN first) \cup {"keywords"}
    /\ \A n \in (DOMAIN rules) \ {"keywords"} : rules[n] = Survivors(first[n])
    /\ rules["keywords"] = [i \in 1..Len(kws) |-> Wrapped(kws[i])]

\* the only language that declares the extension is not the first one, and
\* its definitions have other categories than the first one's
C9_Witness ==
  /\ Returned
  /\ Matching # {}
  /\ 1 \notin Matching
  /\ DOMAIN cfg.languages[1].definitions # DOMAIN cfg.languages[LastMatch].definitions
  /\ DOMAIN rules = (DOMAIN cfg.languages[1].definitions) \cup {"keywords"}

(***************************************************************************)
(* C10.  A call of get_syntax_regex leaves the configuration as it was,    *)
(* and the mapping it returns is the one every call with that              *)
(* configuration and extension returns, whatever the order in which the    *)
(* definitions are iterated.                                               *)
(***************************************************************************)
C10_NoMutationNoState ==
  /\ [][outcome' # "idle" => cfg' = cfg]_vars
  /\ [](Returned =>
          \A seed \in Seeds :
            LET again == GetSyntaxRegexResult(cfg, extension, seed) IN
            ~again.panic /\ again.result = rules)

\* a mapping with several categories has been returned
C10_Witness ==
  /\ Returned
  /\ Cardinality(DOMAIN rules) >= 3
  /\ cfg # DefaultConfig

====
